---- MODULE Spec2Model ----
(***************************************************************************)
(* The amortization / EMI engine of AG.py: calculate_mortgage,             *)
(* amortization_schedule, calculate_emi and generate_amortization_schedule,*)
(* and the calls made of them.  Python's float is IEEE-754 binary64;       *)
(* every arithmetic operation of the source is modelled with its rounding  *)
(* (round to nearest, ties to even, 53-bit significand).  Significands are *)
(* wider than TLC's integers, so they are kept as sequences of limbs.      *)
(***************************************************************************)
EXTENDS Integers, Sequences, FiniteSets, TLC

(***************************************************************************)
(* Natural numbers of any size: little-endian sequences of limbs below     *)
(* Base, without leading zero limbs; <<>> is 0.  The limb-by-limb loops    *)
(* are written by halves, which keeps the nesting of evaluation shallow.   *)
(***************************************************************************)
Base == 2^15

RECURSIVE SmallBitLen(_)
SmallBitLen(n) == IF n = 0 THEN 0 ELSE 1 + SmallBitLen(n \div 2)

LimbBits == SmallBitLen(Base) - 1

\* a without its leading (highest) zero limbs
BNorm(a) ==
    IF a = <<>> THEN <<>>
    ELSE IF a[Len(a)] # 0 THEN a
    ELSE IF \A i \in 1..Len(a) : a[i] = 0 THEN <<>>
    ELSE SubSeq(a, 1, CHOOSE k \in 1..Len(a) :
                         a[k] # 0 /\ \A j \in (k + 1)..Len(a) : a[j] = 0)

\* a with zero limbs added up to length n
BPad(a, n) == a \o [i \in 1..(n - Len(a)) |-> 0]

RECURSIVE BFromNat(_)
BFromNat(n) ==
    IF n = 0 THEN <<>> ELSE <<n % Base>> \o BFromNat(n \div Base)

\* a + b + c for a and b of the same length L >= 1 and a carry c: L limbs
\* and the carry out.
RECURSIVE BAddFix(_, _, _)
BAddFix(a, b, c) ==
    IF Len(a) = 1
    THEN <<(a[1] + b[1] + c) % Base, (a[1] + b[1] + c) \div Base>>
    ELSE LET h  == Len(a) \div 2
             lo == BAddFix(SubSeq(a, 1, h), SubSeq(b, 1, h), c)
         IN  SubSeq(lo, 1, h)
                 \o BAddFix(SubSeq(a, h + 1, Len(a)), SubSeq(b, h + 1, Len(a)), lo[h + 1])

BAddC(a, b, c) ==
    LET n == IF Len(a) > Len(b) THEN Len(a) ELSE Len(b)
    IN  IF n = 0 THEN (IF c = 0 THEN <<>> ELSE <<c>>)
        ELSE BNorm(BAddFix(BPad(a, n), BPad(b, n), c))

BAdd(a, b) == BAddC(a, b, 0)

\* a - b - c for a and b of the same length L >= 1 and a borrow c: L limbs
\* and the borrow out.
RECURSIVE BSubFix(_, _, _)
BSubFix(a, b, c) ==
    IF Len(a) = 1
    THEN LET t == a[1] - b[1] - c
         IN  IF t < 0 THEN <<t + Base, 1>> ELSE <<t, 0>>
    ELSE LET h  == Len(a) \div 2
             lo == BSubFix(SubSeq(a, 1, h), SubSeq(b, 1, h), c)
         IN  SubSeq(lo, 1, h)
                 \o BSubFix(SubSeq(a, h + 1, Len(a)), SubSeq(b, h + 1, Len(a)), lo[h + 1])

\* a - b for a >= b
BSub(a, b) ==
    IF b = <<>> THEN a
    ELSE BNorm(SubSeq(BSubFix(a, BPad(b, Len(a)), 0), 1, Len(a)))

\* -1, 0 or 1 as a < b, a = b, a > b.
BCmp(a, b) ==
    IF Len(a) < Len(b) THEN -1
    ELSE IF Len(a) > Len(b) THEN 1
    ELSE IF a = b THEN 0
    ELSE LET k == CHOOSE i \in 1..Len(a) :
                      a[i] # b[i] /\ \A j \in (i + 1)..Len(a) : a[j] = b[j]
         IN  IF a[k] < b[k] THEN -1 ELSE 1

\* a * k + c for a of length L >= 1 and limbs k, c: L limbs and the carry out.
RECURSIVE BMulSmallFix(_, _, _)
BMulSmallFix(a, k, c) ==
    IF Len(a) = 1
    THEN <<(a[1] * k + c) % Base, (a[1] * k + c) \div Base>>
    ELSE LET h  == Len(a) \div 2
             lo == BMulSmallFix(SubSeq(a, 1, h), k, c)
         IN  SubSeq(lo, 1, h) \o BMulSmallFix(SubSeq(a, h + 1, Len(a)), k, lo[h + 1])

BMulSmall(a, k) ==
    IF a = <<>> \/ k = 0 THEN <<>> ELSE BNorm(BMulSmallFix(a, k, 0))

\* a * Base^n
BShiftLimbs(a, n) == IF a = <<>> THEN <<>> ELSE [i \in 1..n |-> 0] \o a

RECURSIVE BMul(_, _)
BMul(a, b) ==
    IF a = <<>> \/ b = <<>> THEN <<>>
    ELSE IF Len(b) = 1 THEN BMulSmall(a, b[1])
    ELSE LET h == Len(b) \div 2
         IN  BAdd(BMul(a, BNorm(SubSeq(b, 1, h))),
                  BShiftLimbs(BMul(a, SubSeq(b, h + 1, Len(b))), h))

RECURSIVE BPow(_, _)
BPow(a, n) ==
    IF n = 0 THEN <<1>>
    ELSE IF n % 2 = 0 THEN LET h == BPow(a, n \div 2) IN BMul(h, h)
    ELSE BMul(a, BPow(a, n - 1))

\* a * 2^k
BShl(a, k) ==
    IF a = <<>> THEN <<>>
    ELSE LET sh == k % LimbBits
             lo == 2^(LimbBits - sh)
         IN  BShiftLimbs(
                 BNorm([i \in 1..(Len(a) + 1) |->
                           (IF i <= Len(a) THEN (a[i] % lo) * 2^sh ELSE 0)
                         + (IF i > 1 THEN a[i - 1] \div lo ELSE 0)]),
                 k \div LimbBits)

\* floor(a / 2^k)
BShr(a, k) ==
    LET drop == k \div LimbBits
        sh   == k % LimbBits
    IN  IF drop >= Len(a) THEN <<>>
        ELSE BNorm([i \in 1..(Len(a) - drop) |->
                       (a[i + drop] \div 2^sh)
                     + (IF i + drop < Len(a)
                        THEN (a[i + drop + 1] % 2^sh) * 2^(LimbBits - sh)
                        ELSE 0)])

BitLen(a) ==
    IF a = <<>> THEN 0 ELSE LimbBits * (Len(a) - 1) + SmallBitLen(a[Len(a)])

\* bit i of a (bit 0 is the lowest)
BBit(a, i) ==
    LET l == (i \div LimbBits) + 1
    IN  IF l > Len(a) THEN 0 ELSE (a[l] \div 2^(i % LimbBits)) % 2

\* whether the k lowest bits of a are all 0
BLowZero(a, k) ==
    LET full == k \div LimbBits
    IN  /\ \A i \in 1..full : i > Len(a) \/ a[i] = 0
        /\ \/ full + 1 > Len(a)
           \/ a[full + 1] % 2^(k % LimbBits) = 0

BIsOdd(a) == a # <<>> /\ a[1] % 2 = 1

\* The largest limb t with d * t <= r, counting down from a first guess.
RECURSIVE BDigitFrom(_, _, _)
BDigitFrom(r, d, guess) ==
    IF BCmp(BMulSmall(d, guess), r) <= 0 THEN guess
    ELSE BDigitFrom(r, d, guess - 1)

\* The largest limb t with d * t <= r, for r < d * Base and d with its top
\* limb at least Base / 2: the two top limbs of r over the top limb of d
\* overestimate t by at most 2 (Knuth, TAOCP 4.3.1, Theorem B).
BDigit(r, d) ==
    LET n   == Len(d)
        top == (IF Len(r) > n THEN r[n + 1] ELSE 0) * Base
                 + (IF Len(r) >= n THEN r[n] ELSE 0)
        est == top \div d[n]
    IN  BDigitFrom(r, d, IF est >= Base THEN Base - 1 ELSE est)

\* One step of long division: the remainder r so far takes the limb x
\* below it; <<quotient limb, new remainder>>.
BDivStepBy(r0, d, digit) == <<(<<digit>>), BSub(r0, BMulSmall(d, digit))>>

BDivStepOf(r0, d) == BDivStepBy(r0, d, BDigit(r0, d))

BDivStep(r, x, d) == BDivStepOf(BNorm(<<x>> \o r), d)

\* Long division of the limbs lo..hi of a by d, from limb hi down, with the
\* remainder r brought in from the limbs above: <<the hi - lo + 1 quotient
\* limbs, highest first, remainder>>.
RECURSIVE BDivRange(_, _, _, _, _)
BDivRange(a, d, lo, hi, r) ==
    IF lo = hi THEN BDivStep(r, a[lo], d)
    ELSE LET mid == (lo + hi) \div 2
             top == BDivRange(a, d, mid + 1, hi, r)
             bot == BDivRange(a, d, lo, mid, top[2])
         IN  <<top[1] \o bot[1], bot[2]>>

BReverse(q) == [i \in 1..Len(q) |-> q[Len(q) + 1 - i]]

BDivModOut(qr, sh) == <<BNorm(BReverse(qr[1])), BShr(qr[2], sh)>>

BDivModShifted(an, dn, sh) == BDivModOut(BDivRange(an, dn, 1, Len(an), <<>>), sh)

BDivModBy(a, d, sh) == BDivModShifted(BShl(a, sh), BShl(d, sh), sh)

\* <<floor(a / d), a mod d>> for d > 0; a and d are first shifted so that the
\* top limb of d is at least Base / 2.
BDivMod(a, d) ==
    IF a = <<>> THEN <<(<<>>), (<<>>)>>
    ELSE BDivModBy(a, d, LimbBits - SmallBitLen(d[Len(d)]))

(***************************************************************************)
(* Python floats.  A value is [s, m, e] and stands for s * m * 2^e: s is   *)
(* the sign (-1, 0, 1); m is the significand, a natural of exactly         *)
(* Precision bits (<<>> for zero); zero is always Zero, since the source   *)
(* only compares zeros (0 == 0.0 == -0.0).  The exponent range of binary64 *)
(* (overflow, subnormals) is not reached by the values used here.  Python  *)
(* ints that meet floats are converted exactly (they are far below 2^53).  *)
(***************************************************************************)
Precision == 53

Zero == [s |-> 0, m |-> <<>>, e |-> 0]

\* s * q * 2^e for a q of Precision bits, or of one bit more after rounding up
RoundCarry(s, q, e) ==
    IF BitLen(q) > Precision
    THEN [s |-> s, m |-> BShr(q, 1), e |-> e + 1]
    ELSE [s |-> s, m |-> q, e |-> e]

RoundUp(s, q, e, up) == RoundCarry(s, IF up THEN BAddC(q, <<>>, 1) ELSE q, e)

\* m has k > 0 bits too many: they are cut, and the significand goes up when
\* they are more than half a unit, or exactly half and the significand is odd.
RoundCut(s, m, e, sticky, k) ==
    RoundUp(s, BShr(m, k), e + k,
            /\ BBit(m, k - 1) = 1
            /\ (sticky \/ ~BLowZero(m, k - 1) \/ BIsOdd(BShr(m, k))))

\* m has k >= 0 bits too few: the value is exact
RoundExact(s, m, e, k) == [s |-> s, m |-> BShl(m, k), e |-> e - k]

RoundLen(s, m, e, sticky, len) ==
    IF len <= Precision THEN RoundExact(s, m, e, Precision - len)
    ELSE RoundCut(s, m, e, sticky, len - Precision)

\* s * (m + f) * 2^e rounded to nearest, ties to even, where 0 < f < 1 when
\* sticky and f = 0 otherwise.  A sticky m has more than Precision bits.
Round(s, m, e, sticky) ==
    IF m = <<>> \/ s = 0 THEN Zero ELSE RoundLen(s, m, e, sticky, BitLen(m))

\* int -> float
FromInt(i) ==
    IF i = 0 THEN Zero
    ELSE IF i < 0 THEN Round(-1, BFromNat(-i), 0, FALSE)
    ELSE Round(1, BFromNat(i), 0, FALSE)

FNeg(a) == [a EXCEPT !.s = -a.s]

\* a < 0, a == 0, a > 0
FIsNeg(a) == a.s = -1
FIsZero(a) == a.s = 0
FIsPos(a) == a.s = 1

\* the sum of sa * ma * 2^e and sb * mb * 2^e, c being BCmp(ma, mb)
FAddAligned(sa, ma, sb, mb, e, c) ==
    IF sa = sb THEN Round(sa, BAdd(ma, mb), e, FALSE)
    ELSE IF c = 0 THEN Zero
    ELSE Round(IF c > 0 THEN sa ELSE sb,
               IF c > 0 THEN BSub(ma, mb) ELSE BSub(mb, ma), e, FALSE)

FAddShifted(sa, ma, sb, mb, e) == FAddAligned(sa, ma, sb, mb, e, BCmp(ma, mb))

FAddAt(a, b, e) == FAddShifted(a.s, BShl(a.m, a.e - e), b.s, BShl(b.m, b.e - e), e)

\* float + float
FAdd(a, b) ==
    IF a.s = 0 THEN b
    ELSE IF b.s = 0 THEN a
    ELSE FAddAt(a, b, IF a.e < b.e THEN a.e ELSE b.e)

\* float - float
FSub(a, b) == FAdd(a, FNeg(b))

\* float * float
FMul(a, b) ==
    IF a.s = 0 \/ b.s = 0 THEN Zero
    ELSE Round(a.s * b.s, BMul(a.m, b.m), a.e + b.e, FALSE)

\* the quotient qr[1] with remainder qr[2], as a float
FQuotient(s, qr, e) == Round(s, qr[1], e, qr[2] # <<>>)

FDivBy(a, b, k) == FQuotient(a.s * b.s, BDivMod(BShl(a.m, k), b.m), a.e - b.e - k)

\* float / float for b # 0 (Python raises ZeroDivisionError for b == 0; the
\* callers test for it first).
FDiv(a, b) == IF a.s = 0 THEN Zero ELSE FDivBy(a, b, BitLen(b.m) + 3)

\* 1 / (d * 2^e) with sign s
FRecip(s, d, e, k) == FQuotient(s, BDivMod(BShl(<<1>>, k), d), (-e) - k)

FRecipOf(s, d, e) == FRecip(s, d, e, BitLen(d) + Precision + 3)

\* float ** int: the power correctly rounded, as C's pow gives it for these
\* operands; x ** 0 is 1.0.
FPow(a, n) ==
    IF n = 0 THEN FromInt(1)
    ELSE IF a.s = 0 THEN Zero
    ELSE IF n > 0
    THEN Round(IF n % 2 = 0 THEN 1 ELSE a.s, BPow(a.m, n), a.e * n, FALSE)
    ELSE FRecipOf(IF n % 2 = 0 THEN 1 ELSE a.s, BPow(a.m, -n), a.e * (-n))

\* a < b
FLess(a, b) == FIsNeg(FSub(a, b))
FLeq(a, b) == ~FIsPos(FSub(a, b))

(***************************************************************************)
(* The mortgage engine (AG.py lines 25-53).  P, annual_rate and            *)
(* extra_payment are floats, years is an int.  A function that can raise   *)
(* returns [ok |-> FALSE, v |-> Zero] for ZeroDivisionError and            *)
(* [ok |-> TRUE, v |-> result] otherwise.                                  *)
(***************************************************************************)
Raised == [ok |-> FALSE, v |-> Zero]
Returned(v) == [ok |-> TRUE, v |-> v]

\* r = (annual_rate / 100) / 12
MonthlyRate(annual_rate) == FDiv(FDiv(annual_rate, FromInt(100)), FromInt(12))

\* line 29 with pw = (1 + r) ** n and den = pw - 1: M = (P * r * pw) / den
AnnuityOver(P, r, pw, den) ==
    IF FIsZero(den) THEN Raised
    ELSE Returned(FDiv(FMul(FMul(P, r), pw), den))

AnnuityPower(P, r, pw) == AnnuityOver(P, r, pw, FSub(pw, FromInt(1)))

\* M = (P * r * (1 + r) ** n) / ((1 + r) ** n - 1)
AnnuityPayment(P, r, n) == AnnuityPower(P, r, FPow(FAdd(FromInt(1), r), n))

\* M = P / n
ZeroRatePayment(P, n) ==
    IF n = 0 THEN Raised ELSE Returned(FDiv(P, FromInt(n)))

\* line 32 without its addition, to tell "M + extra_payment" from "M"
AddExtraDropped(M, extra) == M

\* line 32: return M + extra_payment
AddExtra(M, extra) == IF M.ok THEN Returned(FAdd(M.v, extra)) ELSE Raised

\* lines 28-32, with r and n of lines 26-27
PaymentAtRate(P, r, n, extra) ==
    AddExtra(IF FIsPos(r) THEN AnnuityPayment(P, r, n) ELSE ZeroRatePayment(P, n),
             extra)

calculate_mortgage(P, annual_rate, years, extra) ==
    PaymentAtRate(P, MonthlyRate(annual_rate), years * 12, extra)

\* line 45-46 left out, to tell the clamp's effect
ClampBalanceNone(b) == b

\* balance after "if balance < 0: balance = 0"
ClampBalance(b) == IF FIsNeg(b) THEN Zero ELSE b

\* lines 45-49 with line 47 before line 46 (the balance added is the negative
\* one), to tell the order of the two lines
ClampAndAppendAdjusted(ok, principal, interest, b1, mon) ==
    [ok  |-> ok,
     row |-> [Month     |-> mon,
              Principal |-> IF FIsNeg(b1) THEN FAdd(principal, b1) ELSE principal,
              Interest  |-> interest,
              Balance   |-> ClampBalance(b1)],
     bal |-> ClampBalance(b1)]

\* lines 45-49: b1 is the balance after line 43; line 47 adds the balance
\* that line 46 has just set.
ClampAndAppend(ok, principal, interest, b1, mon) ==
    [ok  |-> ok,
     row |-> [Month     |-> mon,
              Principal |-> IF FIsNeg(b1) THEN FAdd(principal, ClampBalance(b1))
                            ELSE principal,
              Interest  |-> interest,
              Balance   |-> ClampBalance(b1)],
     bal |-> ClampBalance(b1)]

\* line 43: balance -= principal
PayPrincipal(ok, principal, interest, bal, mon) ==
    ClampAndAppend(ok, principal, interest, FSub(bal, principal), mon)

\* line 42: principal = calculate_mortgage(...) - interest
PrincipalPart(M, interest, bal, mon) ==
    PayPrincipal(M.ok, FSub(M.v, interest), interest, bal, mon)

\* line 41: interest = balance * r if r > 0 else 0
InterestPart(r, bal) == IF FIsPos(r) THEN FMul(bal, r) ELSE Zero

\* One pass through the body of amortization_schedule's loop (lines 41-49)
\* from the balance before it: the row appended and the balance after it.
ScheduleBody(P, annual_rate, years, extra, bal, mon) ==
    PrincipalPart(calculate_mortgage(P, annual_rate, years, extra),
                  InterestPart(MonthlyRate(annual_rate), bal), bal, mon)

(***************************************************************************)
(* The eligibility engine (AG.py lines 148-193).                           *)
(***************************************************************************)
\* lines 151-153, with r and n of lines 149-150
EmiAtRate(P, r, n) ==
    IF FIsZero(r) THEN ZeroRatePayment(P, n) ELSE AnnuityPayment(P, r, n)

\* line 150 left out (the tenure taken as a number of months), to tell the
\* payment the second engine is run with
CalculateEmiInYears(P, annual_rate, years) ==
    EmiAtRate(P, MonthlyRate(annual_rate), years)

calculate_emi(P, annual_rate, years) ==
    EmiAtRate(P, MonthlyRate(annual_rate), years * 12)

\* lines 188-190
GenerateClamp(principal, interest, b1, mon) ==
    [row |-> [Month     |-> mon,
              Principal |-> principal,
              Interest  |-> interest,
              Balance   |-> ClampBalance(b1)],
     bal |-> ClampBalance(b1)]

\* line 187
GeneratePay(principal, interest, bal, mon) ==
    GenerateClamp(principal, interest, FSub(bal, principal), mon)

\* line 186: principal = emi - interest, emi being the module-level name
GeneratePrincipal(emi_now, interest, bal, mon) ==
    GeneratePay(FSub(emi_now, interest), interest, bal, mon)

\* One pass through the body of generate_amortization_schedule's loop (lines
\* 185-190).
GenerateBody(annual_rate, emi_now, bal, mon) ==
    GeneratePrincipal(emi_now, InterestPart(MonthlyRate(annual_rate), bal), bal, mon)

\* lines 40-53 from month mon on, the balance being bal: the rows appended
\* from there to the return, and whether the call returned at all.
RECURSIVE ScheduleFrom(_, _, _, _, _, _)

ScheduleRest(row, rest) ==
    [ok |-> rest.ok, rows |-> IF rest.ok THEN <<row>> \o rest.rows ELSE <<>>]

ScheduleAfter(P, annual_rate, years, extra, it) ==
    IF ~it.ok THEN [ok |-> FALSE, rows |-> <<>>]
    ELSE IF FIsZero(it.bal) THEN [ok |-> TRUE, rows |-> <<it.row>>]
    ELSE ScheduleRest(it.row,
                      ScheduleFrom(P, annual_rate, years, extra, it.bal, it.row.Month + 1))

ScheduleFrom(P, annual_rate, years, extra, bal, mon) ==
    IF mon > years * 12 THEN [ok |-> TRUE, rows |-> <<>>]
    ELSE ScheduleAfter(P, annual_rate, years, extra,
                       ScheduleBody(P, annual_rate, years, extra, bal, mon))

\* lines 35-53 as one function of the arguments
amortization_schedule(P, annual_rate, years, extra) ==
    ScheduleFrom(P, annual_rate, years, extra, P, 1)

(***************************************************************************)
(* The calls.  The script calls the functions top to bottom with the       *)
(* widgets' values, and is run again at every interaction; an importer of  *)
(* the module calls them with any arguments, so the arguments are drawn    *)
(* from small sets that hold values the widgets exclude (P <= 0,           *)
(* years <= 0) too.  Line 155 binds the module-level emi from the          *)
(* eligibility widgets; line 195 is the call of                            *)
(* generate_amortization_schedule whose arguments are those widgets'       *)
(* values, and nothing ties the arguments of another call to them.         *)
(***************************************************************************)
MaxYears == 1
MaxRuns == 2

Principals == {-50000, 0, 50000, 60000}
Rates == {0, 5, 12}
Terms == (-1)..MaxYears
Extras == {0, 1, 3000}

\* a state of the eligibility widgets (lines 140-142) other than the arguments
OtherLoans == {<<60000, 12, 1>>}

VARIABLES
    loan_amount,      \* P, in rupees
    interest_rate,    \* annual rate in percent
    loan_term,        \* years
    extra_payment,
    pc,               \* where the execution is
    monthly_payment,  \* line 56
    month,            \* the running loop's counter
    balance,          \* the running loop's balance
    schedule,         \* the rows of amortization_schedule (line 57)
    progress,         \* line 99
    eligibility,      \* <<loan_amount, interest_rate, loan_tenure>> of lines 140-142
    emi,              \* line 155, module-level
    emi_schedule,     \* the rows of generate_amortization_schedule (line 195)
    run,              \* which execution this is
    shown             \* the tables the previous execution displayed

vars == <<loan_amount, interest_rate, loan_term, extra_payment, pc,
          monthly_payment, month, balance, schedule, progress, eligibility,
          emi, emi_schedule, run, shown>>

inputs == <<loan_amount, interest_rate, loan_term, extra_payment>>

P_ == FromInt(loan_amount)
Rate_ == FromInt(interest_rate)
Extra_ == FromInt(extra_payment)
n_ == loan_term * 12

Init ==
    /\ loan_amount \in Principals
    /\ interest_rate \in Rates
    /\ loan_term \in Terms
    /\ extra_payment \in Extras
    /\ pc = "calculate_mortgage"
    /\ monthly_payment = Zero
    /\ month = 0
    /\ balance = Zero
    /\ schedule = <<>>
    /\ progress = Zero
    /\ eligibility = <<>>
    /\ emi = Zero
    /\ emi_schedule = <<>>
    /\ run = 1
    /\ shown = <<>>

\* line 56: monthly_payment = calculate_mortgage(...); an exception ends the run
CallCalculateMortgage ==
    /\ pc = "calculate_mortgage"
    /\ \E M \in {calculate_mortgage(P_, Rate_, loan_term, Extra_)} :
           /\ monthly_payment' = M.v
           /\ pc' = IF M.ok THEN "amortization_schedule" ELSE "error"
    /\ UNCHANGED <<inputs, month, balance, schedule, progress, eligibility, emi,
                   emi_schedule, run, shown>>

\* lines 36-39 with the loop counting from 2, to tell the numbering of the rows
EnterAtMonthOne ==
    /\ pc = "amortization_schedule"
    /\ balance' = P_
    /\ schedule' = <<>>
    /\ month' = 1
    /\ pc' = "schedule_loop"
    /\ UNCHANGED <<inputs, monthly_payment, progress, eligibility, emi,
                   emi_schedule, run, shown>>

\* line 57, lines 36-39: balance = P, schedule = []
EnterAmortizationSchedule ==
    /\ pc = "amortization_schedule"
    /\ balance' = P_
    /\ schedule' = <<>>
    /\ month' = 0
    /\ pc' = "schedule_loop"
    /\ UNCHANGED <<inputs, monthly_payment, progress, eligibility, emi,
                   emi_schedule, run, shown>>

\* lines 40-49 without lines 50-51 (no break), to tell the early exit
ScheduleIterationNoBreak ==
    /\ pc = "schedule_loop"
    /\ month < n_
    /\ \E it \in {ScheduleBody(P_, Rate_, loan_term, Extra_, balance, month + 1)} :
           IF it.ok
           THEN /\ month' = month + 1
                /\ balance' = it.bal
                /\ schedule' = Append(schedule, it.row)
                /\ pc' = "schedule_loop"
           ELSE /\ pc' = "error"
                /\ UNCHANGED <<month, balance, schedule>>
    /\ UNCHANGED <<inputs, monthly_payment, progress, eligibility, emi,
                   emi_schedule, run, shown>>

\* lines 40-51: one iteration of the loop, with its break
ScheduleIteration ==
    /\ pc = "schedule_loop"
    /\ month < n_
    /\ \E it \in {ScheduleBody(P_, Rate_, loan_term, Extra_, balance, month + 1)} :
           IF it.ok
           THEN /\ month' = month + 1
                /\ balance' = it.bal
                /\ schedule' = Append(schedule, it.row)
                /\ pc' = IF FIsZero(it.bal) THEN "progress" ELSE "schedule_loop"
           ELSE /\ pc' = "error"
                /\ UNCHANGED <<month, balance, schedule>>
    /\ UNCHANGED <<inputs, monthly_payment, progress, eligibility, emi,
                   emi_schedule, run, shown>>

\* line 40, line 53: range(1, n + 1) is exhausted, the rows are returned
ScheduleExhausted ==
    /\ pc = "schedule_loop"
    /\ month >= n_
    /\ pc' = "progress"
    /\ UNCHANGED <<inputs, monthly_payment, month, balance, schedule, progress,
                   eligibility, emi, emi_schedule, run, shown>>

\* line 99: progress = 1 - schedule["Balance"].iloc[-1] / loan_amount;
\* IndexError on an empty table, ZeroDivisionError for loan_amount = 0
Progress ==
    /\ pc = "progress"
    /\ IF schedule = <<>> \/ loan_amount = 0
       THEN pc' = "error" /\ UNCHANGED progress
       ELSE /\ progress' = FSub(FromInt(1), FDiv(schedule[Len(schedule)].Balance, P_))
            /\ pc' = "calculate_emi"
    /\ UNCHANGED <<inputs, monthly_payment, month, balance, schedule, eligibility,
                   emi, emi_schedule, run, shown>>

\* line 155: emi = calculate_emi(loan_amount, interest_rate, loan_tenure), the
\* three being the eligibility widgets' values: those of the call to come
\* (line 195) or others.
CallCalculateEmi ==
    /\ pc = "calculate_emi"
    /\ \E w \in {<<loan_amount, interest_rate, loan_term>>} \cup OtherLoans :
       \E E \in {calculate_emi(FromInt(w[1]), FromInt(w[2]), w[3])} :
           /\ eligibility' = w
           /\ emi' = E.v
           /\ pc' = IF E.ok THEN "generate_amortization_schedule" ELSE "error"
    /\ UNCHANGED <<inputs, monthly_payment, month, balance, schedule, progress,
                   emi_schedule, run, shown>>

\* a call of generate_amortization_schedule, lines 180-183
EnterGenerate ==
    /\ pc = "generate_amortization_schedule"
    /\ balance' = P_
    /\ emi_schedule' = <<>>
    /\ month' = 0
    /\ pc' = "generate_loop"
    /\ UNCHANGED <<inputs, monthly_payment, schedule, progress, eligibility, emi,
                   run, shown>>

\* lines 184-192
GenerateIteration ==
    /\ pc = "generate_loop"
    /\ month < n_
    /\ \E it \in {GenerateBody(Rate_, emi, balance, month + 1)} :
           /\ month' = month + 1
           /\ balance' = it.bal
           /\ emi_schedule' = Append(emi_schedule, it.row)
           /\ pc' = IF FIsZero(it.bal) THEN "done" ELSE "generate_loop"
    /\ UNCHANGED <<inputs, monthly_payment, schedule, progress, eligibility, emi,
                   run, shown>>

\* line 184, line 193
GenerateExhausted ==
    /\ pc = "generate_loop"
    /\ month >= n_
    /\ pc' = "done"
    /\ UNCHANGED <<inputs, monthly_payment, month, balance, schedule, progress,
                   eligibility, emi, emi_schedule, run, shown>>

\* The same calls are made again with the same arguments: every name is
\* bound afresh, the tables of the execution that ended stay on the page
\* until the new ones replace them.
Rerun ==
    /\ pc = "done"
    /\ run < MaxRuns
    /\ run' = run + 1
    /\ shown' = <<schedule, emi_schedule>>
    /\ pc' = "calculate_mortgage"
    /\ monthly_payment' = Zero
    /\ month' = 0
    /\ balance' = Zero
    /\ schedule' = <<>>
    /\ progress' = Zero
    /\ eligibility' = <<>>
    /\ emi' = Zero
    /\ emi_schedule' = <<>>
    /\ UNCHANGED inputs

Next ==
    \/ CallCalculateMortgage
    \/ EnterAmortizationSchedule
    \/ ScheduleIteration
    \/ ScheduleExhausted
    \/ Progress
    \/ CallCalculateEmi
    \/ EnterGenerate
    \/ GenerateIteration
    \/ GenerateExhausted
    \/ Rerun

Spec == Init /\ [][Next]_vars

\* A step of the loop of amortization_schedule, by what it does to the
\* position and the counter: an iteration (lines 40-51) or the exit (line 53).
LoopStep ==
    /\ pc = "schedule_loop"
    /\ pc' \in {"schedule_loop", "progress", "error"}
    /\ month' \in {month, month + 1}

\* The interpreter keeps executing: while the execution is in the loop, a
\* step of the loop is taken.
FairSpec == Spec /\ WF_<<pc, month>>(LoopStep)

(***************************************************************************)
(* The properties.  Those about a returned schedule are stated of the      *)
(* state in which amortization_schedule has just returned.                 *)
(***************************************************************************)
\* valid loan parameters
Valid == loan_amount > 0 /\ loan_term > 0 /\ extra_payment >= 0

\* amortization_schedule has just returned its rows
AtReturn == pc = "progress"

Rows == 1..Len(schedule)

Last == schedule[Len(schedule)]

\* the balance before the payment of row i
BalanceBefore(i) == IF i = 1 THEN P_ ELSE schedule[i - 1].Balance

FAbs(a) == IF FIsNeg(a) THEN FNeg(a) ELSE a

\* 2.0 ** k
TwoTo(k) == Round(1, <<1>>, k, FALSE)

\* |x - y| <= |y| * 2^-k
Within(x, y, k) == FLeq(FAbs(FSub(x, y)), FMul(FAbs(y), TwoTo(-k)))

\* the Principal column added up in row order
RECURSIVE SumPrincipal(_)
SumPrincipal(rows) ==
    IF rows = <<>> THEN Zero
    ELSE FAdd(SumPrincipal(SubSeq(rows, 1, Len(rows) - 1)), rows[Len(rows)].Principal)

\* C1, as claimed: whenever n = years * 12 <= 0 or P <= 0, calculate_mortgage
\* and amortization_schedule fail, and no row is returned: the execution is
\* before the first call or has ended in an exception, and the table is empty.
C1_InvalidRejected ==
    (loan_amount <= 0 \/ n_ <= 0)
        => (pc \in {"calculate_mortgage", "error"} /\ schedule = <<>>)

\* C2, as claimed: for valid parameters with rate 0 the payment is exactly
\* P / (years * 12), and every row's interest is 0.
C2_AsClaimed ==
    (Valid /\ interest_rate = 0 /\ AtReturn)
        => /\ monthly_payment = FDiv(P_, FromInt(n_))
           /\ \A i \in Rows : schedule[i].Interest = Zero

\* C2, amended: for valid parameters with rate 0 the payment is exactly
\* P / (years * 12) + extra_payment, and every row's interest is 0.
C2_ZeroRate ==
    (Valid /\ interest_rate = 0 /\ AtReturn)
        => /\ monthly_payment = FAdd(FDiv(P_, FromInt(n_)), Extra_)
           /\ \A i \in Rows : schedule[i].Interest = Zero

C2_Witness ==
    /\ Valid /\ interest_rate = 0 /\ extra_payment > 0 /\ AtReturn
    /\ Len(schedule) > 1

\* C3, as claimed: for valid parameters the Principal column of the returned
\* schedule adds up to P (here: to within one rupee), whatever extra_payment.
C3_PrincipalSumsToP ==
    (Valid /\ AtReturn)
        => FLess(FAbs(FSub(SumPrincipal(schedule), P_)), FromInt(1))

\* the rows for the same P, rate and term with extra_payment = 0
C4_Baseline == amortization_schedule(P_, Rate_, loan_term, Zero).rows

\* C4, as claimed: with any extra_payment > 0 the schedule has strictly fewer
\* rows than with extra_payment = 0.
C4_AsClaimed ==
    (Valid /\ extra_payment > 0 /\ AtReturn) => Len(schedule) < Len(C4_Baseline)

\* C4, amended: with extra_payment > 0 the schedule never has more rows than
\* with extra_payment = 0, and has strictly fewer when n - 1 extra payments
\* make up one payment M0 of the loan without extra (a smaller extra payment
\* can leave the number of rows as it is).
C4_Accelerates ==
    (Valid /\ extra_payment > 0 /\ AtReturn)
        => /\ Len(schedule) <= Len(C4_Baseline)
           /\ FLeq(calculate_mortgage(P_, Rate_, loan_term, Zero).v,
                   FMul(FromInt(n_ - 1), Extra_))
                  => Len(schedule) < Len(C4_Baseline)

C4_Witness ==
    /\ Valid /\ extra_payment > 0 /\ AtReturn
    /\ Len(schedule) < n_

\* C5: for valid parameters the Balance column is never negative and never
\* increases: the first row's balance is <= P, each later one <= the one before.
C5_BalanceMonotone ==
    (Valid /\ AtReturn)
        => \A i \in Rows : /\ ~FIsNeg(schedule[i].Balance)
                           /\ FLeq(schedule[i].Balance, BalanceBefore(i))

C5_Witness ==
    /\ Valid /\ AtReturn /\ extra_payment > 0
    /\ Len(schedule) \in 2..(n_ - 1)
    /\ FIsZero(Last.Balance)

\* C6, as claimed: for valid parameters with rate > 0 the last row of the
\* returned schedule has Balance exactly 0, and the progress of line 99 is 1.
C6_PaidOff ==
    (Valid /\ interest_rate > 0)
        => /\ AtReturn => FIsZero(Last.Balance)
           /\ pc = "calculate_emi" => progress = FromInt(1)

\* the rows returned for years >= 1: k of them, 1 <= k <= n, numbered 1..k, a
\* zero balance in the last one only
C7_Rows ==
    (loan_term >= 1 /\ AtReturn)
        => /\ Len(schedule) \in 1..n_
           /\ \A i \in Rows : /\ schedule[i].Month = i
                              /\ FIsZero(schedule[i].Balance) => i = Len(schedule)

\* C7: the loop of amortization_schedule always terminates (once entered, the
\* function returns), and it returns k rows with 1 <= k <= n = years * 12,
\* numbered Month = 1..k; a row with Balance = 0 can only be the last.
C7_Terminates ==
    /\ []C7_Rows
    /\ (pc = "schedule_loop") ~> (pc = "progress")

C7_Witness ==
    /\ loan_term >= 1 /\ AtReturn
    /\ Len(schedule) = n_
    /\ ~FIsZero(Last.Balance)

C9_SameRowsAgain ==
    (Valid /\ pc = "done" /\ run > 1) => shown = <<schedule, emi_schedule>>

\* C10: for valid P, rate > 0 and years, with extra_payment = 0 and emi =
\* calculate_emi(P, rate, years), the two engines return the same rows: as
\* many, with the same month, principal, interest and balance.
C10_EnginesAgree ==
    (/\ Valid /\ interest_rate > 0 /\ extra_payment = 0
     /\ pc = "done"
     /\ eligibility = <<loan_amount, interest_rate, loan_term>>)
        => emi_schedule = schedule

C10_Witness ==
    /\ Valid /\ interest_rate > 0 /\ extra_payment = 0
    /\ pc = "done"
    /\ eligibility = <<loan_amount, interest_rate, loan_term>>
    /\ Len(emi_schedule) = n_

====
